---- MODULE Spec2Model ----
(***************************************************************************)
(* Model of the localhost OAuth capture server of src/lib.rs:              *)
(* start_with_config (bind + accept loop), handle_connection (one read,    *)
(* httparse, Content-Length framed body, fixed response) and cancel.       *)
(* Byte strings are sequences of integers 0..255; a Rust String is the     *)
(* sequence of its UTF-8 bytes.                                            *)
(***************************************************************************)
EXTENDS Integers, Sequences, FiniteSets, TLC

(***************************************************************************)
(* Byte strings used by the code and by the requests fed to it.            *)
(***************************************************************************)
EXIT == <<1, 3, 3, 7>>

SP == 32
HTAB == 9
CR == 13
LF == 10
COLON == 58
PLUS == 43
CRLF == <<CR, LF>>
CRLFCRLF == <<CR, LF, CR, LF>>

S_GET == <<71, 69, 84>>
S_POST == <<80, 79, 83, 84>>
S_exit == <<47, 101, 120, 105, 116>>
S_submit == <<47, 115, 117, 98, 109, 105, 116>>
S_other == <<47, 111, 116, 104, 101, 114>>
S_HTTP11 == <<72, 84, 84, 80, 47, 49, 46, 49>>
S_HTTP10 == <<72, 84, 84, 80, 47, 49, 46, 48>>
S_ContentLength == <<67, 111, 110, 116, 101, 110, 116, 45, 76, 101, 110, 103, 116, 104>>
S_contentlength == <<99, 111, 110, 116, 101, 110, 116, 45, 108, 101, 110, 103, 116, 104>>
S_true == <<116, 114, 117, 101>>
S_abc == <<97, 98, 99>>
S_html == <<60, 104, 51, 62>>
S_BAD == <<66, 65, 68>>

\* U+FFFD REPLACEMENT CHARACTER in UTF-8
REPLACEMENT == <<239, 191, 189>>

BufSize == 4048
MaxHeaders == 100
\* decimal digits of usize::MAX (2^64 - 1)
UsizeMaxDigits == <<1, 8, 4, 4, 6, 7, 4, 4, 0, 7, 3, 7, 0, 9, 5, 5, 1, 6, 1, 5>>

Min(a, b) == IF a <= b THEN a ELSE b

\* s[a..b] as a sequence, empty when b < a
Slice(s, a, b) == IF b < a THEN <<>> ELSE SubSeq(s, a, b)

(***************************************************************************)
(* String::from_utf8_lossy: every maximal invalid prefix of a UTF-8        *)
(* sequence becomes one U+FFFD, valid sequences are copied.                *)
(***************************************************************************)
IsCont(b) == b >= 128 /\ b <= 191

\* number of bytes of s, starting at i, that form one valid scalar value
\* (0 when the sequence at i is invalid)
Utf8ValidLen(s, i) ==
    LET n == Len(s)
        b0 == s[i]
        b1 == IF i + 1 <= n THEN s[i + 1] ELSE -1
        b2 == IF i + 2 <= n THEN s[i + 2] ELSE -1
        b3 == IF i + 3 <= n THEN s[i + 3] ELSE -1
        second3 == \/ b0 = 224 /\ b1 >= 160 /\ b1 <= 191
                   \/ b0 >= 225 /\ b0 <= 236 /\ IsCont(b1)
                   \/ b0 = 237 /\ b1 >= 128 /\ b1 <= 159
                   \/ b0 >= 238 /\ b0 <= 239 /\ IsCont(b1)
        second4 == \/ b0 = 240 /\ b1 >= 144 /\ b1 <= 191
                   \/ b0 >= 241 /\ b0 <= 243 /\ IsCont(b1)
                   \/ b0 = 244 /\ b1 >= 128 /\ b1 <= 143
    IN  IF b0 < 128 THEN 1
        ELSE IF b0 >= 194 /\ b0 <= 223 THEN (IF IsCont(b1) THEN 2 ELSE 0)
        ELSE IF b0 >= 224 /\ b0 <= 239
             THEN (IF second3 /\ IsCont(b2) THEN 3 ELSE 0)
        ELSE IF b0 >= 240 /\ b0 <= 244
             THEN (IF second4 /\ IsCont(b2) /\ IsCont(b3) THEN 4 ELSE 0)
        ELSE 0

\* number of bytes of the invalid sequence at i that one U+FFFD replaces
Utf8InvalidLen(s, i) ==
    LET n == Len(s)
        b0 == s[i]
        b1 == IF i + 1 <= n THEN s[i + 1] ELSE -1
        b2 == IF i + 2 <= n THEN s[i + 2] ELSE -1
        second3 == \/ b0 = 224 /\ b1 >= 160 /\ b1 <= 191
                   \/ b0 >= 225 /\ b0 <= 236 /\ IsCont(b1)
                   \/ b0 = 237 /\ b1 >= 128 /\ b1 <= 159
                   \/ b0 >= 238 /\ b0 <= 239 /\ IsCont(b1)
        second4 == \/ b0 = 240 /\ b1 >= 144 /\ b1 <= 191
                   \/ b0 >= 241 /\ b0 <= 243 /\ IsCont(b1)
                   \/ b0 = 244 /\ b1 >= 128 /\ b1 <= 143
    IN  IF b0 >= 224 /\ b0 <= 239 /\ second3 THEN 2
        ELSE IF b0 >= 240 /\ b0 <= 244 /\ second4
             THEN (IF IsCont(b2) THEN 3 ELSE 2)
        ELSE 1

RECURSIVE LossyFrom(_, _)
LossyFrom(s, i) ==
    IF i > Len(s) THEN <<>>
    ELSE LET v == Utf8ValidLen(s, i)
         IN  IF v > 0
             THEN SubSeq(s, i, i + v - 1) \o LossyFrom(s, i + v)
             ELSE REPLACEMENT \o LossyFrom(s, i + Utf8InvalidLen(s, i))

from_utf8_lossy(s) == LossyFrom(s, 1)

(***************************************************************************)
(* str::parse::<usize>: an optional '+' and at least one decimal digit,    *)
(* nothing else, value at most usize::MAX.  -1 stands for Err.             *)
(***************************************************************************)
IsDigit(b) == b >= 48 /\ b <= 57

RECURSIVE StripZeros(_)
StripZeros(s) == IF s # <<>> /\ Head(s) = 48 THEN StripZeros(Tail(s)) ELSE s

\* d, a digit string, denotes a number above usize::MAX
RECURSIVE DigitsGreater(_, _)
DigitsGreater(d, m) ==
    IF d = <<>> THEN FALSE
    ELSE IF Head(d) - 48 # Head(m) THEN Head(d) - 48 > Head(m)
    ELSE DigitsGreater(Tail(d), Tail(m))

UsizeOverflow(s) ==
    LET d == StripZeros(s)
    IN  \/ Len(d) > Len(UsizeMaxDigits)
        \/ Len(d) = Len(UsizeMaxDigits) /\ DigitsGreater(d, UsizeMaxDigits)

RECURSIVE DigitsValue(_, _)
DigitsValue(s, acc) ==
    IF s = <<>> THEN acc ELSE DigitsValue(Tail(s), acc * 10 + (Head(s) - 48))

parse_usize(s) ==
    LET digits == IF s # <<>> /\ Head(s) = PLUS THEN Tail(s) ELSE s
    IN  IF digits = <<>> \/ \E i \in 1..Len(digits) : ~IsDigit(digits[i]) THEN -1
        ELSE IF UsizeOverflow(digits) THEN -1
        ELSE DigitsValue(digits, 0)

(***************************************************************************)
(* str::splitn(2, "\r\n\r\n") followed by parts.get(1).unwrap_or(""):      *)
(* everything after the first separator, "" when there is none.            *)
(***************************************************************************)
RECURSIVE FindSep(_, _, _)
FindSep(s, sep, i) ==
    IF i + Len(sep) - 1 > Len(s) THEN 0
    ELSE IF SubSeq(s, i, i + Len(sep) - 1) = sep THEN i
    ELSE FindSep(s, sep, i + 1)

second_part(s, sep) ==
    LET i == FindSep(s, sep, 1)
    IN  IF i = 0 THEN <<>> ELSE Slice(s, i + Len(sep), Len(s))

(***************************************************************************)
(* httparse::Request::parse over the whole zero-initialised buffer         *)
(* (request.parse(&buffer)): positions past the bytes read hold 0, and the *)
(* buffer ends at BufSize.  The method, the path and every completed       *)
(* header stay filled in when a later part of the request is malformed.    *)
(***************************************************************************)
At(buf, i) == IF i <= Len(buf) THEN buf[i] ELSE 0

TokenBytes ==
    {33, 35, 36, 37, 38, 39, 42, 43, 45, 46, 94, 95, 96, 124, 126}
        \cup (48..57) \cup (65..90) \cup (97..122)

UriBytes == (33..126) \ {34, 60, 62}

HeaderValueBytes == {HTAB} \cup (32..126) \cup (128..255)

\* first position at or after i whose byte is not in allowed (BufSize + 1
\* when the buffer ends first)
RECURSIVE Scan(_, _, _)
Scan(buf, i, allowed) ==
    IF i <= BufSize /\ At(buf, i) \in allowed THEN Scan(buf, i + 1, allowed) ELSE i

\* position after the leading empty lines, 0 on Error::NewLine or Partial
RECURSIVE skip_empty_lines(_, _)
skip_empty_lines(buf, i) ==
    IF i > BufSize THEN 0
    ELSE IF At(buf, i) = CR
         THEN (IF i + 1 <= BufSize /\ At(buf, i + 1) = LF
               THEN skip_empty_lines(buf, i + 2) ELSE 0)
    ELSE IF At(buf, i) = LF THEN skip_empty_lines(buf, i + 1)
    ELSE i

RECURSIVE RTrim(_)
RTrim(v) ==
    IF v # <<>> /\ v[Len(v)] \in {SP, HTAB} THEN RTrim(SubSeq(v, 1, Len(v) - 1)) ELSE v

\* the headers written into the array, in order, from position i on
RECURSIVE parse_headers(_, _, _)
parse_headers(buf, i, acc) ==
    IF i > BufSize \/ At(buf, i) \in {CR, LF} \/ Len(acc) = MaxHeaders THEN acc
    ELSE LET j == Scan(buf, i, TokenBytes)
             v0 == Scan(buf, j + 1, {SP, HTAB})
             v1 == Scan(buf, v0, HeaderValueBytes)
             nxt == IF v1 + 1 <= BufSize /\ At(buf, v1) = CR /\ At(buf, v1 + 1) = LF
                    THEN v1 + 2
                    ELSE IF v1 <= BufSize /\ At(buf, v1) = LF THEN v1 + 1
                    ELSE 0
         IN  IF j = i \/ j > BufSize \/ At(buf, j) # COLON \/ nxt = 0 THEN acc
             ELSE parse_headers(buf, nxt,
                      Append(acc, [name |-> Slice(buf, i, j - 1),
                                   value |-> RTrim(Slice(buf, v0, v1 - 1))]))

\* [path: the request path or "" (line 119-122), headers: the array entries]
parse_request(buf) ==
    LET p0 == skip_empty_lines(buf, 1)
        m1 == Scan(buf, p0, TokenBytes)
        methodOk == p0 > 0 /\ m1 > p0 /\ m1 <= BufSize /\ At(buf, m1) = SP
        u0 == m1 + 1
        u1 == Scan(buf, u0, UriBytes)
        uriOk == methodOk /\ u1 > u0 /\ u1 <= BufSize /\ At(buf, u1) = SP
        v0 == u1 + 1
        version == [k \in 1..8 |-> At(buf, v0 + k - 1)]
        versionOk == uriOk /\ v0 + 7 <= BufSize /\ version \in {S_HTTP11, S_HTTP10}
        e == v0 + 8
        h0 == IF ~versionOk THEN 0
              ELSE IF e + 1 <= BufSize /\ At(buf, e) = CR /\ At(buf, e + 1) = LF THEN e + 2
              ELSE IF e <= BufSize /\ At(buf, e) = LF THEN e + 1
              ELSE 0
    IN  [path |-> IF uriOk THEN Slice(buf, u0, u1 - 1) ELSE <<>>,
         headers |-> IF h0 = 0 THEN <<>> ELSE parse_headers(buf, h0, <<>>)]

\* the header block from position i on ends with its blank line, n headers
\* having been written before i
RECURSIVE headers_complete(_, _, _)
headers_complete(buf, i, n) ==
    IF i > BufSize THEN FALSE
    ELSE IF At(buf, i) = CR THEN i + 1 <= BufSize /\ At(buf, i + 1) = LF
    ELSE IF At(buf, i) = LF THEN TRUE
    ELSE IF n = MaxHeaders THEN FALSE
    ELSE LET j == Scan(buf, i, TokenBytes)
             v0 == Scan(buf, j + 1, {SP, HTAB})
             v1 == Scan(buf, v0, HeaderValueBytes)
             nxt == IF v1 + 1 <= BufSize /\ At(buf, v1) = CR /\ At(buf, v1 + 1) = LF
                    THEN v1 + 2
                    ELSE IF v1 <= BufSize /\ At(buf, v1) = LF THEN v1 + 1
                    ELSE 0
         IN  IF j = i \/ j > BufSize \/ At(buf, j) # COLON \/ nxt = 0 THEN FALSE
             ELSE headers_complete(buf, nxt, n + 1)

\* request.parse(&buffer) is Ok(Status::Complete(_)): the result line 117
\* discards with .ok()
parse_complete(buf) ==
    LET p0 == skip_empty_lines(buf, 1)
        m1 == Scan(buf, p0, TokenBytes)
        methodOk == p0 > 0 /\ m1 > p0 /\ m1 <= BufSize /\ At(buf, m1) = SP
        u0 == m1 + 1
        u1 == Scan(buf, u0, UriBytes)
        uriOk == methodOk /\ u1 > u0 /\ u1 <= BufSize /\ At(buf, u1) = SP
        v0 == u1 + 1
        version == [k \in 1..8 |-> At(buf, v0 + k - 1)]
        versionOk == uriOk /\ v0 + 7 <= BufSize /\ version \in {S_HTTP11, S_HTTP10}
        e == v0 + 8
        h0 == IF ~versionOk THEN 0
              ELSE IF e + 1 <= BufSize /\ At(buf, e) = CR /\ At(buf, e + 1) = LF THEN e + 2
              ELSE IF e <= BufSize /\ At(buf, e) = LF THEN e + 1
              ELSE 0
    IN  h0 # 0 /\ headers_complete(buf, h0, 0)

(***************************************************************************)
(* Lines 128-136: the last header named exactly Content-Length decides;    *)
(* 0 when there is none; -1 when the unwrap of a parse panics.             *)
(***************************************************************************)
RECURSIVE content_length_of(_, _)
content_length_of(headers, acc) ==
    IF headers = <<>> THEN acc
    ELSE IF Head(headers).name = S_ContentLength
         THEN LET v == parse_usize(from_utf8_lossy(Head(headers).value))
              IN  IF v < 0 THEN -1 ELSE content_length_of(Tail(headers), v)
    ELSE content_length_of(Tail(headers), acc)

(***************************************************************************)
(* handle_connection, lines 106-170, in the pieces between its blocking    *)
(* calls.  Option<String> is [some, val].                                  *)
(***************************************************************************)
None == [some |-> FALSE, val |-> <<>>]
Some(v) == [some |-> TRUE, val |-> v]

\* conn.read(&mut buffer): at most BufSize of the bytes that have arrived
read_byte(arrived) == Min(Len(arrived), BufSize)

\* line 124 taking a missing path for the exit path too
is_exit_or_empty(path) == path \in {S_exit, <<>>}

\* line 124 taking the submission path for the exit path too
is_exit_or_submit(path) == path \in {S_exit, S_submit}

\* line 124
is_exit(path) == path = S_exit

\* line 139 without its path test
wants_body_anypath(content_length, path) == content_length > 0

\* line 139
wants_body(content_length, path) == content_length > 0 /\ path = S_submit

\* line 140-142: the part of the bytes read that follows the blank line
initial_content(buffer) == second_part(from_utf8_lossy(buffer), CRLFCRLF)

\* line 151-153
body_option(content) == IF content # <<>> THEN Some(content) ELSE None

\* lines 113-154 with the parse result of line 117 unwrapped instead of
\* discarded
classify_unwrap(buffer) ==
    LET request == parse_request(buffer)
        path == request.path
        content_length == content_length_of(request.headers, 0)
        content == initial_content(buffer)
        blank == [step |-> "respond", ret |-> None, content |-> <<>>, need |-> 0]
    IN  IF ~parse_complete(buffer) THEN [blank EXCEPT !.step = "panic"]
        ELSE IF is_exit(path) THEN [blank EXCEPT !.step = "return", !.ret = Some(<<>>)]
        ELSE IF content_length < 0 THEN [blank EXCEPT !.step = "panic"]
        ELSE IF wants_body(content_length, path)
             THEN IF content_length < Len(content) THEN [blank EXCEPT !.step = "panic"]
                  ELSE IF content_length - Len(content) > 0
                       THEN [blank EXCEPT !.step = "read_exact",
                                          !.content = content,
                                          !.need = content_length - Len(content)]
                  ELSE [blank EXCEPT !.ret = body_option(content), !.content = content]
        ELSE blank

\* Lines 113-154 on the bytes of the first read.  step is what happens next:
\* "return" (line 125), "panic" (the unwrap of line 134, or line 143 when
\* content is longer than content_length: the usize subtraction overflows,
\* which panics with overflow checks and otherwise wraps to a length above
\* isize::MAX that vec! refuses with a panic), "read_exact" (line 146) or
\* "respond" (line 156).
classify(buffer) ==
    LET request == parse_request(buffer)
        path == request.path
        content_length == content_length_of(request.headers, 0)
        content == initial_content(buffer)
        blank == [step |-> "respond", ret |-> None, content |-> <<>>, need |-> 0]
    IN  IF is_exit(path) THEN [blank EXCEPT !.step = "return", !.ret = Some(<<>>)]
        ELSE IF content_length < 0 THEN [blank EXCEPT !.step = "panic"]
        ELSE IF wants_body(content_length, path)
             THEN IF content_length < Len(content) THEN [blank EXCEPT !.step = "panic"]
                  ELSE IF content_length - Len(content) > 0
                       THEN [blank EXCEPT !.step = "read_exact",
                                          !.content = content,
                                          !.need = content_length - Len(content)]
                  ELSE [blank EXCEPT !.ret = body_option(content), !.content = content]
        ELSE blank

\* line 147-148
push_missing(content, body_buffer) == content \o from_utf8_lossy(body_buffer)

\* line 156-165
response_body == S_true
http_response(body) ==
    [status |-> 200,
     content_length |-> Len(body),
     allow_headers |-> "*",
     allow_methods |-> "POST, GET, OPTIONS",
     allow_credentials |-> "true",
     allow_origin |-> "*",
     content_type |-> "application/json; charset=utf-8",
     cache_control |-> "max-age=0, private, must-revalidate",
     body |-> body]
NoResponse == [status |-> 0]

\* lines 87-94 without the break of line 92
loop_dispatch_nobreak(ret) ==
    IF ret.some /\ ret.val # <<>> THEN "handler" ELSE "continue"

\* lines 87-94 without the is_empty test of line 89
loop_dispatch_noempty(ret) == IF ret.some THEN "handler" ELSE "continue"

\* lines 87-94: what the accept loop does with handle_connection's result
loop_dispatch(ret) ==
    IF ret.some THEN (IF ret.val # <<>> THEN "handler" ELSE "break") ELSE "continue"

(***************************************************************************)
(* What clients send.  A request is serialised to the bytes on the wire;   *)
(* the first k body bytes arrive with the head (the initial read returns   *)
(* them), the others later.  open: after its last byte the client keeps    *)
(* its sending side open (a further read blocks) instead of shutting it    *)
(* down (a further read sees end of stream); read_err / write_err: the     *)
(* transport fails the server's first read / its write.                    *)
(***************************************************************************)
Hdr(name, value) == [name |-> name, value |-> value]

RECURSIVE HeaderLines(_, _)
HeaderLines(headers, eol) ==
    IF headers = <<>> THEN <<>>
    ELSE Head(headers).name \o <<COLON, SP>> \o Head(headers).value \o eol
             \o HeaderLines(Tail(headers), eol)

Wire(method, path, headers, eol) ==
    method \o <<SP>> \o path \o <<SP>> \o S_HTTP11 \o eol \o HeaderLines(headers, eol) \o eol

Http(method, path, headers, body, k, open) ==
    [kind |-> "http", path |-> path, headers |-> headers, body |-> body, k |-> k,
     first |-> Wire(method, path, headers, CRLF) \o Slice(body, 1, k),
     rest |-> Slice(body, k + 1, Len(body)),
     open |-> open, read_err |-> FALSE, write_err |-> FALSE]

Raw(bytes, open) ==
    [kind |-> "raw", path |-> <<>>, headers |-> <<>>, body |-> <<>>, k |-> 0,
     first |-> bytes, rest |-> <<>>,
     open |-> open, read_err |-> FALSE, write_err |-> FALSE]

CL(value) == <<Hdr(S_ContentLength, value)>>

S_e_acute == <<195, 169>>

ReqExit == Http(S_GET, S_exit, <<>>, <<>>, 0, FALSE)
ReqExitBadLength == Http(S_POST, S_exit, CL(<<120>>), S_abc, 3, FALSE)
ReqSubmitWhole == Http(S_POST, S_submit, CL(<<51>>), S_abc, 3, FALSE)
ReqSubmitSplit == Http(S_POST, S_submit, CL(<<51>>), S_abc, 1, FALSE)
ReqSubmitStall == Http(S_POST, S_submit, CL(<<51>>), <<97>>, 1, TRUE)
ReqSubmitShort == Http(S_POST, S_submit, CL(<<51>>), <<97>>, 1, FALSE)
ReqSubmitNoLength == Http(S_GET, S_submit, <<>>, <<>>, 0, FALSE)
ReqSubmitZero == Http(S_POST, S_submit, CL(<<48>>), <<>>, 0, FALSE)
ReqSubmitLower == Http(S_POST, S_submit, <<Hdr(S_contentlength, <<51>>)>>, S_abc, 3, FALSE)
ReqSubmitUtf8 == Http(S_POST, S_submit, CL(<<50>>), S_e_acute, 2, FALSE)
ReqSubmitUtf8Split == Http(S_POST, S_submit, CL(<<50>>), S_e_acute, 1, FALSE)
ReqSubmitLong == Http(S_POST, S_submit, CL(<<49>>), S_abc, 3, FALSE)
\* a body that is not UTF-8, its invalid bytes arriving after the initial read
ReqSubmitBadUtf8Split == Http(S_POST, S_submit, CL(<<51>>), <<97, 255, 255>>, 1, FALSE)
ReqOther == Http(S_POST, S_other, CL(<<51>>), S_abc, 3, FALSE)
ReqBadLength == Http(S_GET, S_other, CL(<<120>>), <<>>, 0, FALSE)
ReqReadErr == [Http(S_GET, S_other, <<>>, <<>>, 0, FALSE) EXCEPT !.read_err = TRUE]
ReqWriteErr == [Http(S_GET, S_other, <<>>, <<>>, 0, FALSE) EXCEPT !.write_err = TRUE]
ReqEmpty == Raw(<<>>, FALSE)
ReqMagic == Raw(EXIT, FALSE)
\* bytes that are no request line at all
ReqGarbage == Raw(S_abc, FALSE)
\* a request line whose version is malformed: GET /exit BAD
ReqExitBadVersion ==
    [Http(S_GET, S_exit, <<>>, <<>>, 0, FALSE) EXCEPT
        !.kind = "malformed",
        !.first = S_GET \o <<SP>> \o S_exit \o <<SP>> \o S_BAD \o CRLFCRLF]
\* a header block whose second line is no header (it has no colon)
ReqSubmitBadHeader ==
    [Http(S_POST, S_submit, CL(<<51>>), S_abc, 3, FALSE) EXCEPT
        !.kind = "malformed",
        !.first = S_POST \o <<SP>> \o S_submit \o <<SP>> \o S_HTTP11 \o CRLF
                      \o HeaderLines(CL(<<51>>), CRLF) \o S_BAD \o CRLFCRLF \o S_abc]

Requests ==
    << ReqExit, ReqExitBadLength, ReqSubmitWhole, ReqSubmitSplit, ReqSubmitStall,
       ReqSubmitShort, ReqSubmitNoLength, ReqSubmitZero, ReqSubmitLower,
       ReqSubmitUtf8, ReqSubmitUtf8Split, ReqSubmitLong, ReqOther, ReqBadLength,
       ReqReadErr, ReqWriteErr, ReqEmpty, ReqMagic,
       ReqGarbage, ReqExitBadVersion, ReqSubmitBadHeader, ReqSubmitBadUtf8Split >>

Rid(req) == CHOOSE rid \in DOMAIN Requests : Requests[rid] = req

\* handle_connection's first part on each request's first read
Classified ==
    [rid \in DOMAIN Requests |->
        classify(Slice(Requests[rid].first, 1, read_byte(Requests[rid].first)))]

\* lines 115-122 on each request's first read: the parsed path
ParsedPath ==
    [rid \in DOMAIN Requests |->
        parse_request(Slice(Requests[rid].first, 1, read_byte(Requests[rid].first))).path]

\* line 117 on each request's first read: the parse succeeded
WellFormed ==
    [rid \in DOMAIN Requests |->
        parse_complete(Slice(Requests[rid].first, 1, read_byte(Requests[rid].first)))]

\* lines 115-117 on each request's first read: the headers left in the array
ParsedHeaders ==
    [rid \in DOMAIN Requests |->
        parse_request(Slice(Requests[rid].first, 1, read_byte(Requests[rid].first))).headers]

\* what cancel writes (line 182) before its stream is dropped
CancelRid == Rid(ReqMagic)
ClientRids == DOMAIN Requests \ {CancelRid}
\* the requests clients send while listeners start and cancel is called
LoopRids ==
    {Rid(ReqExit), Rid(ReqSubmitSplit), Rid(ReqSubmitStall)}

(***************************************************************************)
(* Bounds of the model.                                                    *)
(***************************************************************************)
MaxStarts == 2
MaxConns == 2
MaxCancels == 1

(***************************************************************************)
(* Ports.  Port 0 asks the OS for a free port of the ephemeral range.      *)
(***************************************************************************)
ListedPorts == {8080, 8081}
EphemeralPorts == {49152, 49153}
AllPorts == ListedPorts \cup EphemeralPorts
\* the ports cancel is called with: one a listed port, one the OS assigns,
\* one another process listens on
CancelPorts == {8080, 49152, 49153}
\* the Err of a Result<u16, std::io::Error>
Err == -1

\* OauthConfig, lines 37-48
Config(ports, response) == [ports |-> ports, response |-> response]

PortLists ==
    {<<>>, <<8080>>, <<8081>>, <<8080, 8081>>, <<8081, 8080>>,
     <<0>>, <<8080, 0>>, <<0, 8080>>}
Configs ==
    {Config(ps, r) : ps \in {None} \cup {Some(l) : l \in PortLists},
                     r \in {None, Some(S_html)}}
LoopConfigs ==
    {Config(None, None), Config(Some(<<8080>>), Some(S_html)), Config(Some(<<>>), None)}

VARIABLES
    occupied,     \* ports other processes listen on
    starts,       \* the calls of start_with_config so far and what they returned
    lst,          \* the listeners bound so far, each with its accept-loop thread
    conns,        \* the connections made to those listeners, in connect order
    handlerLog,   \* the handler invocations so far, in order
    cancels       \* the calls of cancel so far with what they returned (a set)

vars == <<occupied, starts, lst, conns, handlerLog, cancels>>

Running(l) == lst[l].status = "running"
HeldPorts == {lst[l].port : l \in {x \in DOMAIN lst : Running(x)}}
InUse == occupied \cup HeldPorts
FreeEphemeral == EphemeralPorts \ InUse

\* one bind attempt (lines 71-78) succeeds
CanBind(p) == IF p = 0 THEN FreeEphemeral # {} ELSE p \notin InUse

\* the last address that binds instead of the first
RECURSIVE last_bindable(_, _)
last_bindable(ports, i) ==
    IF i > Len(ports) THEN 0
    ELSE LET later == last_bindable(ports, i + 1)
         IN  IF later # 0 THEN later ELSE IF CanBind(ports[i]) THEN i ELSE 0

\* TcpListener::bind over a slice of addresses: the first that binds
RECURSIVE first_bindable(_, _)
first_bindable(ports, i) ==
    IF i > Len(ports) THEN 0
    ELSE IF CanBind(ports[i]) THEN i
    ELSE first_bindable(ports, i + 1)

\* lines 70-79 falling back to an OS-assigned port when no candidate binds
bind_outcomes_fallback(ports) ==
    LET addrs == IF ports.some THEN ports.val ELSE <<0>>
        i == first_bindable(addrs, 1)
    IN  IF i = 0 THEN (IF FreeEphemeral # {} THEN FreeEphemeral ELSE {Err})
        ELSE IF addrs[i] = 0 THEN FreeEphemeral
        ELSE {addrs[i]}

\* the ports listener.local_addr() can report after the match of lines 70-79,
\* {Err} when the ? returns the bind error
bind_outcomes(ports) ==
    LET addrs == IF ports.some THEN ports.val ELSE <<0>>
        i == first_bindable(addrs, 1)
    IN  IF i = 0 THEN {Err}
        ELSE IF addrs[i] = 0 THEN FreeEphemeral
        ELSE {addrs[i]}

NewListener(port, response) ==
    [port |-> port, response |-> response, status |-> "running", pc |-> "accept",
     cur |-> 0, backlog |-> <<>>, content |-> <<>>, need |-> 0, ret |-> None]

NewConn(l, rid, origin) ==
    [lid |-> l, rid |-> rid, origin |-> origin, st |-> "queued",
     response |-> NoResponse, ret |-> "pending", val |-> <<>>, reads |-> <<>>,
     after_cancel |-> \E c \in DOMAIN conns :
                         /\ conns[c].lid = l
                         /\ conns[c].origin = "cancel"
                         /\ conns[c].st = "closed"]

Init ==
    /\ occupied = {49153}
    /\ starts = <<>>
    /\ lst = <<>>
    /\ conns = <<>>
    /\ handlerLog = <<>>
    /\ cancels = {}

\* one listener, as start_with_config(OauthConfig::default(), handler) leaves it
InitConn ==
    /\ occupied = {49153}
    /\ starts = <<[config |-> Config(None, None), in_use |-> {49153},
                   result |-> 49152, lid |-> 1]>>
    /\ lst = <<NewListener(49152, None)>>
    /\ conns = <<>>
    /\ handlerLog = <<>>
    /\ cancels = {}

\* two listeners started with different config.response
InitPair ==
    /\ occupied = {}
    /\ starts = <<[config |-> Config(None, None), in_use |-> {},
                   result |-> 49152, lid |-> 1],
                  [config |-> Config(None, Some(S_html)), in_use |-> {49152},
                   result |-> 49153, lid |-> 2]>>
    /\ lst = <<NewListener(49152, None), NewListener(49153, Some(S_html))>>
    /\ conns = <<>>
    /\ handlerLog = <<>>
    /\ cancels = {}

InitBoot ==
    /\ occupied \in SUBSET AllPorts
    /\ starts = <<>>
    /\ lst = <<>>
    /\ conns = <<>>
    /\ handlerLog = <<>>
    /\ cancels = {}

(***************************************************************************)
(* start_with_config, lines 66-104                                         *)
(***************************************************************************)
Start(config) ==
    /\ Len(starts) < MaxStarts
    /\ \E port \in bind_outcomes(config.ports) :
         /\ starts' = Append(starts,
                [config |-> config, in_use |-> InUse, result |-> port,
                 lid |-> IF port = Err THEN 0 ELSE Len(lst) + 1])
         /\ lst' = IF port = Err THEN lst
                   ELSE Append(lst, NewListener(port, config.response))
    /\ UNCHANGED <<occupied, conns, handlerLog, cancels>>

(***************************************************************************)
(* A client connects to a listening port and sends Requests[rid].          *)
(***************************************************************************)
Connect(l, rid) ==
    /\ l \in DOMAIN lst
    /\ Running(l)
    /\ Len(conns) < MaxConns
    /\ conns' = Append(conns, NewConn(l, rid, "client"))
    /\ lst' = [lst EXCEPT ![l].backlog = Append(@, Len(conns) + 1)]
    /\ UNCHANGED <<occupied, starts, handlerLog, cancels>>

\* a client sends Requests[rid] to listener 1 and the same to listener 2
ConnectBoth(rid) ==
    /\ Len(lst) >= 2
    /\ Running(1) /\ Running(2)
    /\ Len(conns) + 2 <= 2 * MaxConns
    /\ conns' = conns \o <<NewConn(1, rid, "client"), NewConn(2, rid, "client")>>
    /\ lst' = [lst EXCEPT ![1].backlog = Append(@, Len(conns) + 1),
                          ![2].backlog = Append(@, Len(conns) + 2)]
    /\ UNCHANGED <<occupied, starts, handlerLog, cancels>>

(***************************************************************************)
(* cancel, lines 178-186                                                   *)
(***************************************************************************)
\* a connect that reaches whichever listener is running, whatever the port
ListenerOn_any(port) == {l \in DOMAIN lst : Running(l)}

\* TcpStream::connect of line 181: the listener the connection reaches
ListenerOn(port) == {l \in DOMAIN lst : Running(l) /\ lst[l].port = port}

Cancel(port) ==
    /\ Cardinality(cancels) < MaxCancels
    /\ IF ListenerOn(port) # {}
       THEN LET l == CHOOSE x \in ListenerOn(port) : TRUE
            IN  /\ Len(conns) < MaxConns
                /\ conns' = Append(conns, NewConn(l, CancelRid, "cancel"))
                /\ lst' = [lst EXCEPT ![l].backlog = Append(@, Len(conns) + 1)]
                /\ cancels' = cancels \cup
                       {[port |-> port, result |-> "Ok", cid |-> Len(conns) + 1]}
       ELSE /\ cancels' = cancels \cup
                   {[port |-> port,
                     result |-> IF port \in occupied THEN "Ok" ELSE "Err",
                     cid |-> 0]}
            /\ UNCHANGED <<conns, lst>>
    /\ UNCHANGED <<occupied, starts, handlerLog>>

(***************************************************************************)
(* The accept loop thread, lines 83-101                                    *)
(***************************************************************************)
\* the thread ends (break, or a panic unwinding): the listener is dropped,
\* connections still waiting in its backlog are reset
EndThread(l, status, cs) ==
    /\ lst' = [lst EXCEPT ![l].status = status, ![l].pc = "done", ![l].cur = 0,
                          ![l].backlog = <<>>, ![l].content = <<>>,
                          ![l].need = 0, ![l].ret = None]
    /\ conns' = [c \in DOMAIN cs |->
                    IF cs[c].lid = l /\ cs[c].st = "queued"
                    THEN [cs[c] EXCEPT !.st = "reset"] ELSE cs[c]]

Panic(l) ==
    EndThread(l, "panicked",
              [conns EXCEPT ![lst[l].cur].st = "closed", ![lst[l].cur].ret = "panic"])

\* handle_connection writing the response on every return, line 125 included
Return_answering(l, ret, cs) ==
    LET c == lst[l].cur
        done == [cs EXCEPT ![c].st = "closed",
                           ![c].ret = IF ret.some THEN "Some" ELSE "None",
                           ![c].val = ret.val,
                           ![c].response = http_response(response_body)]
    IN  IF loop_dispatch(ret) = "break" THEN EndThread(l, "stopped", done)
        ELSE /\ conns' = done
             /\ lst' = [lst EXCEPT
                           ![l].pc = IF loop_dispatch(ret) = "handler"
                                     THEN "handler" ELSE "accept",
                           ![l].cur = IF loop_dispatch(ret) = "handler" THEN c ELSE 0,
                           ![l].content = <<>>, ![l].need = 0, ![l].ret = ret]

\* handle_connection returned ret for the current connection
Return(l, ret, cs) ==
    LET c == lst[l].cur
        done == [cs EXCEPT ![c].st = "closed",
                           ![c].ret = IF ret.some THEN "Some" ELSE "None",
                           ![c].val = ret.val]
    IN  IF loop_dispatch(ret) = "break" THEN EndThread(l, "stopped", done)
        ELSE /\ conns' = done
             /\ lst' = [lst EXCEPT
                           ![l].pc = IF loop_dispatch(ret) = "handler"
                                     THEN "handler" ELSE "accept",
                           ![l].cur = IF loop_dispatch(ret) = "handler" THEN c ELSE 0,
                           ![l].content = <<>>, ![l].need = 0, ![l].ret = ret]

\* an accept that does not wait for the connection in hand
Accept_early(l) ==
    /\ l \in DOMAIN lst
    /\ Running(l)
    /\ lst[l].backlog # <<>>
    /\ lst' = [lst EXCEPT ![l].pc = "read", ![l].cur = Head(lst[l].backlog),
                          ![l].backlog = Tail(@)]
    /\ conns' = [conns EXCEPT ![Head(lst[l].backlog)].st = "open"]
    /\ UNCHANGED <<occupied, starts, handlerLog, cancels>>

\* listener.incoming() yields Ok(conn)
Accept(l) ==
    /\ l \in DOMAIN lst
    /\ Running(l)
    /\ lst[l].pc = "accept"
    /\ lst[l].backlog # <<>>
    /\ lst' = [lst EXCEPT ![l].pc = "read", ![l].cur = Head(lst[l].backlog),
                          ![l].backlog = Tail(@)]
    /\ conns' = [conns EXCEPT ![Head(lst[l].backlog)].st = "open"]
    /\ UNCHANGED <<occupied, starts, handlerLog, cancels>>

\* lines 96-98 leaving the loop on the error
AcceptError_fatal(l) ==
    /\ l \in DOMAIN lst
    /\ Running(l)
    /\ lst[l].pc = "accept"
    /\ lst[l].backlog # <<>>
    /\ EndThread(l, "stopped", [conns EXCEPT ![Head(lst[l].backlog)].st = "aborted"])
    /\ UNCHANGED <<occupied, starts, handlerLog, cancels>>

\* listener.incoming() yields Err for a connection that was aborted while it
\* waited: logged, the loop goes on (lines 96-98)
AcceptError(l) ==
    /\ l \in DOMAIN lst
    /\ Running(l)
    /\ lst[l].pc = "accept"
    /\ lst[l].backlog # <<>>
    /\ lst' = [lst EXCEPT ![l].backlog = Tail(@)]
    /\ conns' = [conns EXCEPT ![Head(lst[l].backlog)].st = "aborted"]
    /\ UNCHANGED <<occupied, starts, handlerLog, cancels>>

\* lines 107-154 up to the first of: return, panic, read_exact, write_all
ReadRequest(l) ==
    /\ l \in DOMAIN lst
    /\ Running(l)
    /\ lst[l].pc = "read"
    /\ LET c == lst[l].cur
           req == Requests[conns[c].rid]
           r == Classified[conns[c].rid]
       IN  /\ req.read_err \/ req.first # <<>> \/ ~req.open
           /\ IF req.read_err \/ r.step = "panic" THEN Panic(l)
              ELSE IF r.step = "return" THEN Return(l, r.ret, conns)
              ELSE /\ lst' = [lst EXCEPT
                                 ![l].pc = IF r.step = "read_exact" THEN "body"
                                           ELSE "respond",
                                 ![l].content = r.content,
                                 ![l].need = r.need,
                                 ![l].ret = r.ret]
                   /\ UNCHANGED conns
    /\ UNCHANGED <<occupied, starts, handlerLog, cancels>>

\* lines 145-153 with a read timeout: read_exact gives up on a silent client
ReadBody_timeout(l) ==
    /\ l \in DOMAIN lst
    /\ Running(l)
    /\ lst[l].pc = "body"
    /\ LET c == lst[l].cur
           req == Requests[conns[c].rid]
           unread == Slice(req.first, read_byte(req.first) + 1, Len(req.first))
                         \o req.rest
           need == lst[l].need
       IN  IF Len(unread) < need THEN Panic(l)
           ELSE LET content == push_missing(lst[l].content,
                                            SubSeq(unread, 1, need))
                IN  /\ lst' = [lst EXCEPT ![l].pc = "respond",
                                          ![l].content = content,
                                          ![l].need = 0,
                                          ![l].ret = body_option(content)]
                    /\ conns' = [conns EXCEPT ![c].reads = Append(@, need)]
    /\ UNCHANGED <<occupied, starts, handlerLog, cancels>>

\* lines 145-153: read_exact blocks until need bytes have arrived and fails
\* when the client closes before that
ReadBody(l) ==
    /\ l \in DOMAIN lst
    /\ Running(l)
    /\ lst[l].pc = "body"
    /\ LET c == lst[l].cur
           req == Requests[conns[c].rid]
           unread == Slice(req.first, read_byte(req.first) + 1, Len(req.first))
                         \o req.rest
           need == lst[l].need
       IN  /\ Len(unread) >= need \/ ~req.open
           /\ IF Len(unread) < need THEN Panic(l)
              ELSE LET content == push_missing(lst[l].content,
                                               SubSeq(unread, 1, need))
                   IN  /\ lst' = [lst EXCEPT ![l].pc = "respond",
                                             ![l].content = content,
                                             ![l].need = 0,
                                             ![l].ret = body_option(content)]
                       /\ conns' = [conns EXCEPT ![c].reads = Append(@, need)]
    /\ UNCHANGED <<occupied, starts, handlerLog, cancels>>

\* lines 156-169 returning request_body with the response not yet written
Respond_unwritten(l) ==
    /\ l \in DOMAIN lst
    /\ Running(l)
    /\ lst[l].pc = "respond"
    /\ LET c == lst[l].cur
           req == Requests[conns[c].rid]
       IN  IF req.write_err THEN Panic(l)
           ELSE Return(l, lst[l].ret, conns)
    /\ UNCHANGED <<occupied, starts, handlerLog, cancels>>

\* lines 156-169 writing the configured response when there is one
Respond_override(l) ==
    /\ l \in DOMAIN lst
    /\ Running(l)
    /\ lst[l].pc = "respond"
    /\ LET c == lst[l].cur
           req == Requests[conns[c].rid]
           body == IF lst[l].response.some THEN lst[l].response.val ELSE response_body
       IN  IF req.write_err THEN Panic(l)
           ELSE Return(l, lst[l].ret,
                       [conns EXCEPT ![c].response = http_response(body)])
    /\ UNCHANGED <<occupied, starts, handlerLog, cancels>>

\* lines 156-169: write_all and flush, then return request_body
Respond(l) ==
    /\ l \in DOMAIN lst
    /\ Running(l)
    /\ lst[l].pc = "respond"
    /\ LET c == lst[l].cur
           req == Requests[conns[c].rid]
       IN  IF req.write_err THEN Panic(l)
           ELSE Return(l, lst[l].ret,
                       [conns EXCEPT ![c].response = http_response(response_body)])
    /\ UNCHANGED <<occupied, starts, handlerLog, cancels>>

\* line 90: handler(content)
CallHandler(l) ==
    /\ l \in DOMAIN lst
    /\ Running(l)
    /\ lst[l].pc = "handler"
    /\ handlerLog' = Append(handlerLog, [cid |-> lst[l].cur, content |-> lst[l].ret.val])
    /\ lst' = [lst EXCEPT ![l].pc = "accept", ![l].cur = 0, ![l].ret = None]
    /\ UNCHANGED <<occupied, starts, conns, cancels>>

Listeners == 1..MaxStarts

Next ==
    \/ \E config \in LoopConfigs : Start(config)
    \/ \E l \in Listeners, rid \in LoopRids : Connect(l, rid)
    \/ \E port \in CancelPorts : Cancel(port)
    \/ \E l \in Listeners : Accept(l)
    \/ \E l \in Listeners : AcceptError(l)
    \/ \E l \in Listeners : ReadRequest(l)
    \/ \E l \in Listeners : ReadBody(l)
    \/ \E l \in Listeners : Respond(l)
    \/ \E l \in Listeners : CallHandler(l)

Spec == Init /\ [][Next]_vars

NextConn ==
    \/ \E l \in Listeners, rid \in ClientRids : Connect(l, rid)
    \/ \E l \in Listeners : Accept(l)
    \/ \E l \in Listeners : AcceptError(l)
    \/ \E l \in Listeners : ReadRequest(l)
    \/ \E l \in Listeners : ReadBody(l)
    \/ \E l \in Listeners : Respond(l)
    \/ \E l \in Listeners : CallHandler(l)

SpecConn == InitConn /\ [][NextConn]_vars

NextPair ==
    \/ \E rid \in ClientRids : ConnectBoth(rid)
    \/ \E l \in Listeners : Accept(l)
    \/ \E l \in Listeners : ReadRequest(l)
    \/ \E l \in Listeners : ReadBody(l)
    \/ \E l \in Listeners : Respond(l)
    \/ \E l \in Listeners : CallHandler(l)

SpecPair == InitPair /\ [][NextPair]_vars

NextBoot == \E config \in Configs : Start(config)

SpecBoot == InitBoot /\ [][NextBoot]_vars

(***************************************************************************)
(* Vocabulary of the properties                                            *)
(***************************************************************************)
ReqOf(c) == Requests[conns[c].rid]
Handled(c) == conns[c].st = "closed"
HandlerCalls(c) == {i \in DOMAIN handlerLog : handlerLog[i].cid = c}
YieldsContent(c) == Handled(c) /\ conns[c].ret = "Some" /\ conns[c].val # <<>>
Answered(c) ==
    /\ conns[c].response.status = 200
    /\ conns[c].response.allow_origin = "*"
    /\ conns[c].response.content_length = 4
    /\ conns[c].response.body = S_true
\* p could be bound while the ports of in_use were taken
CouldBind(p, in_use) == IF p = 0 THEN EphemeralPorts \ in_use # {} ELSE p \notin in_use
Succeeded == {i \in DOMAIN starts : starts[i].result # Err}

(***************************************************************************)
(* C1: whenever cancel(port) returned Ok against a running accept loop,    *)
(* the handler is not invoked for the cancellation connection and no       *)
(* connection made after that connection was handled is accepted.          *)
(***************************************************************************)
C1_CancelStopsLoop ==
    \A k \in cancels :
        (k.result = "Ok" /\ k.cid # 0) =>
            /\ HandlerCalls(k.cid) = {}
            /\ \A d \in DOMAIN conns :
                   (conns[d].lid = conns[k.cid].lid /\ conns[d].after_cancel)
                       => conns[d].st \notin {"open", "closed"}

(***************************************************************************)
(* C2: once a connection whose path is /exit has been handled, its         *)
(* listener's thread has ended by the break, the socket is released, no    *)
(* connection that came after it is accepted, the handler was not invoked  *)
(* for it, and nothing happens on that listener ever after; whatever the   *)
(* /exit request carries and whatever was handled before.                  *)
(***************************************************************************)
ExitPath(c) == ReqOf(c).kind = "http" /\ ReqOf(c).path = S_exit

C2_ExitState ==
    \A c \in DOMAIN conns :
        (Handled(c) /\ ExitPath(c)) =>
            LET l == conns[c].lid
            IN  /\ lst[l].status = "stopped"
                /\ lst[l].pc = "done"
                /\ lst[l].backlog = <<>>
                /\ \/ CanBind(lst[l].port)
                   \/ \E x \in DOMAIN lst : x > l /\ Running(x) /\ lst[x].port = lst[l].port
                /\ HandlerCalls(c) = {}
                /\ \A d \in DOMAIN conns :
                       (conns[d].lid = l /\ d > c) => conns[d].st = "reset"

C2_ExitStep ==
    \A l \in DOMAIN lst :
        lst[l].status = "stopped" =>
            /\ lst'[l] = lst[l]
            /\ \A c \in DOMAIN conns : conns[c].lid = l => conns'[c] = conns[c]
            /\ \A i \in DOMAIN handlerLog' :
                   i > Len(handlerLog) => conns[handlerLog'[i].cid].lid # l

C2_ExitStopsLoop == []C2_ExitState /\ [][C2_ExitStep]_vars

C2_Witness ==
    /\ Len(conns) = 2
    /\ HandlerCalls(1) # {}
    /\ conns[2].rid = Rid(ReqExitBadLength)
    /\ Handled(2)

(***************************************************************************)
(* C3: the handler is invoked exactly once, with the content, for each     *)
(* connection that yields non-empty content (the call is the loop's next   *)
(* step after handle_connection returns), and never for another one.       *)
(***************************************************************************)
C3_HandlerOncePerContent ==
    \A c \in DOMAIN conns :
        IF YieldsContent(c)
        THEN \/ /\ Cardinality(HandlerCalls(c)) = 1
                /\ \A i \in HandlerCalls(c) : handlerLog[i].content = conns[c].val
             \/ /\ HandlerCalls(c) = {}
                /\ lst[conns[c].lid].pc = "handler"
                /\ lst[conns[c].lid].cur = c
        ELSE HandlerCalls(c) = {}

C3_Witness ==
    /\ Len(conns) = 2
    /\ YieldsContent(1) /\ Cardinality(HandlerCalls(1)) = 1
    /\ Handled(2) /\ conns[2].ret = "None" /\ Answered(2)

(***************************************************************************)
(* C4: a /submit request with Content-Length: N and exactly N body bytes,  *)
(* k of them in the initial read, yields the N body bytes as content,      *)
(* with no further read when k = N and one read of N - k bytes otherwise.  *)
(***************************************************************************)
FramedSubmit(r) ==
    /\ r.kind = "http"
    /\ r.path = S_submit
    /\ Len(r.body) \in 1..9
    /\ r.headers = CL(<<48 + Len(r.body)>>)
    /\ ~r.read_err /\ ~r.write_err

C4_BodyCaptured ==
    \A c \in DOMAIN conns :
        (Handled(c) /\ FramedSubmit(ReqOf(c))) =>
            /\ conns[c].ret = "Some"
            /\ conns[c].val = ReqOf(c).body
            /\ conns[c].reads = IF ReqOf(c).k = Len(ReqOf(c).body) THEN <<>>
                                ELSE <<Len(ReqOf(c).body) - ReqOf(c).k>>

(***************************************************************************)
(* C5: a connection whose path is not /submit, or whose /submit request    *)
(* has no Content-Length header or only Content-Length: 0, yields no       *)
(* content and no handler invocation.                                      *)
(***************************************************************************)
NoLengthDeclared(r) ==
    \A i \in DOMAIN r.headers :
        r.headers[i].name = S_ContentLength => r.headers[i].value = <<48>>

C5_NoContent ==
    \A c \in DOMAIN conns :
        (ReqOf(c).path # S_submit \/ NoLengthDeclared(ReqOf(c))) =>
            /\ ~YieldsContent(c)
            /\ HandlerCalls(c) = {}
            /\ lst[conns[c].lid].cur = c => lst[conns[c].lid].ret = None

C5_Witness ==
    /\ Len(conns) = 2
    /\ conns[1].rid = Rid(ReqOther) /\ Handled(1) /\ Answered(1)
    /\ conns[2].rid = Rid(ReqSubmitZero) /\ Handled(2) /\ Answered(2)

(***************************************************************************)
(* C6: every handled connection whose path is not /exit got the fixed 200  *)
(* response (Access-Control-Allow-Origin: *, Content-Length 4, body true)  *)
(* before it was closed.                                                   *)
(***************************************************************************)
C6_AlwaysAnswered ==
    \A c \in DOMAIN conns :
        (Handled(c) /\ ReqOf(c).path # S_exit) => Answered(c)

(***************************************************************************)
(* C7: a fault on one connection leaves its listener running.              *)
(***************************************************************************)
C7_FaultsIsolated ==
    \A c \in DOMAIN conns : conns[c].ret = "panic" => Running(conns[c].lid)

(***************************************************************************)
(* C8 as stated: with a list of candidate ports the returned port is the   *)
(* first list element that could be bound; without a list it is the        *)
(* OS-assigned port of the listener.                                       *)
(***************************************************************************)
C8_FirstListedPort ==
    \A n \in DOMAIN starts :
        LET s == starts[n]
            ports == s.config.ports.val
        IN  IF s.config.ports.some
            THEN (\E j \in DOMAIN ports : CouldBind(ports[j], s.in_use)) =>
                     \E i \in DOMAIN ports :
                         /\ ports[i] = s.result
                         /\ \A j \in 1..(i - 1) : ~CouldBind(ports[j], s.in_use)
            ELSE s.result # Err =>
                     /\ s.result \in EphemeralPorts \ s.in_use
                     /\ lst[s.lid].port = s.result

(***************************************************************************)
(* C8 amended: the listener is bound to the first list element that could  *)
(* be bound and its port is returned: that element itself, or, when that   *)
(* element is 0, the port the OS assigned.                                 *)
(***************************************************************************)
C8_FirstBindablePort ==
    \A n \in DOMAIN starts :
        LET s == starts[n]
            ports == s.config.ports.val
        IN  IF s.config.ports.some
            THEN (\E j \in DOMAIN ports : CouldBind(ports[j], s.in_use)) =>
                     \E i \in DOMAIN ports :
                         /\ CouldBind(ports[i], s.in_use)
                         /\ \A j \in 1..(i - 1) : ~CouldBind(ports[j], s.in_use)
                         /\ IF ports[i] = 0
                            THEN s.result \in EphemeralPorts \ s.in_use
                            ELSE s.result = ports[i]
                         /\ s.lid # 0 /\ lst[s.lid].port = s.result
            ELSE s.result # Err =>
                     /\ s.result \in EphemeralPorts \ s.in_use
                     /\ lst[s.lid].port = s.result

C8_Witness ==
    \E n \in DOMAIN starts :
        /\ starts[n].config.ports = Some(<<8080, 8081>>)
        /\ 8080 \in starts[n].in_use
        /\ starts[n].result = 8081

(***************************************************************************)
(* C9: a start_with_config none of whose listed ports could be bound (or   *)
(* whose list is empty) returned the error and spawned nothing: every      *)
(* listener, every held port and every handler invocation belongs to a     *)
(* call that returned a port.                                              *)
(***************************************************************************)
C9_BindErrorStartsNothing ==
    /\ \A n \in DOMAIN starts :
           LET s == starts[n]
           IN  (/\ s.config.ports.some
                /\ \A j \in DOMAIN s.config.ports.val :
                       ~CouldBind(s.config.ports.val[j], s.in_use))
                   => s.result = Err /\ s.lid = 0
    /\ Len(lst) = Cardinality(Succeeded)
    /\ \A l \in DOMAIN lst : \E n \in Succeeded :
           starts[n].lid = l /\ starts[n].result = lst[l].port
    /\ HeldPorts \subseteq {starts[n].result : n \in Succeeded}
    /\ \A i \in DOMAIN handlerLog :
           \E n \in Succeeded : starts[n].lid = conns[handlerLog[i].cid].lid

C9_Witness ==
    /\ Len(starts) = 2
    /\ starts[1].result = 8080
    /\ starts[2].config.ports = Some(<<8080>>) /\ starts[2].result = Err
    /\ handlerLog # <<>>

(***************************************************************************)
(* C10: a cancel(port) while nothing listens on the port returns the error *)
(* and changes no listener, no connection and no handler invocation.       *)
(***************************************************************************)
C10_CancelUnreachable ==
    [][\A k \in cancels' \ cancels :
           k.port \notin InUse =>
               /\ k.result = "Err"
               /\ k.cid = 0
               /\ lst' = lst
               /\ conns' = conns
               /\ handlerLog' = handlerLog]_vars

C10_Witness ==
    \E k \in cancels :
        /\ k.result = "Err"
        /\ \E c \in DOMAIN conns :
               /\ Running(conns[c].lid)
               /\ lst[conns[c].lid].port # k.port
               /\ Handled(c) /\ Answered(c)

(***************************************************************************)
(* C11: on every listener at most one connection is being read, parsed or  *)
(* responded to; a connection is accepted only after every connection      *)
(* accepted before it on that listener has been fully handled, its handler *)
(* call included; this holds with clients and cancel callers connecting    *)
(* concurrently; and a listener's port is the one its start_with_config    *)
(* returned for as long as its loop is alive, no other live loop having it.*)
(***************************************************************************)
InHand(c) ==
    \/ conns[c].st = "open"
    \/ /\ conns[c].st = "closed"
       /\ lst[conns[c].lid].pc = "handler"
       /\ lst[conns[c].lid].cur = c
FullyHandled(c) ==
    /\ conns[c].st = "closed"
    /\ YieldsContent(c) => HandlerCalls(c) # {}
ConnsOf(l) == {c \in DOMAIN conns : conns[c].lid = l}

C11_OneAtATime ==
    \A l \in DOMAIN lst :
        /\ Cardinality({c \in ConnsOf(l) : InHand(c)}) <= 1
        /\ \A c \in ConnsOf(l) : InHand(c) =>
               /\ Running(l) /\ lst[l].cur = c
               /\ lst[l].pc \in {"read", "body", "respond", "handler"}
               /\ \A d \in ConnsOf(l) :
                      (d # c /\ conns[d].st \in {"open", "closed"}) => FullyHandled(d)
        /\ lst[l].pc = "accept" =>
               \A d \in ConnsOf(l) : conns[d].st \in {"open", "closed"} => FullyHandled(d)
        /\ Running(l) =>
               /\ \E n \in DOMAIN starts : starts[n].lid = l /\ starts[n].result = lst[l].port
               /\ \A x \in DOMAIN lst : (x # l /\ Running(x)) => lst[x].port # lst[l].port

C11_Witness ==
    \E c, d \in DOMAIN conns :
        /\ conns[c].lid = conns[d].lid
        /\ conns[c].origin = "client" /\ conns[c].st = "open"
        /\ lst[conns[c].lid].pc = "body"
        /\ conns[d].origin = "cancel" /\ conns[d].st = "queued"

(***************************************************************************)
(* C12: a listener's loop has ended by the break if and only if a          *)
(* connection whose parsed path is /exit was handled on it, that one being *)
(* the last it accepted; handle_connection returned the empty-string       *)
(* marker for the connections whose parsed path is /exit and for no other, *)
(* whatever the Content-Length and the body of a /submit request (an empty *)
(* body included) or of a request to another path.                         *)
(***************************************************************************)
ReturnedMarker(c) == conns[c].ret = "Some" /\ conns[c].val = <<>>

C12_BreakOnlyOnExit ==
    /\ \A c \in DOMAIN conns :
           Handled(c) => (ReturnedMarker(c) <=> ParsedPath[conns[c].rid] = S_exit)
    /\ \A l \in DOMAIN lst :
           lst[l].status = "stopped" <=>
               \E c \in ConnsOf(l) :
                   /\ Handled(c) /\ ParsedPath[conns[c].rid] = S_exit
                   /\ \A d \in ConnsOf(l) : d > c => conns[d].st = "reset"

C12_Witness ==
    /\ Len(conns) = 2
    /\ conns[1].rid \in {Rid(ReqSubmitZero), Rid(ReqSubmitWhole), Rid(ReqOther)}
    /\ Handled(1) /\ Answered(1)
    /\ conns[2].st = "open" /\ Running(conns[2].lid)

(***************************************************************************)
(* C13: a connection that requests /submit with a Content-Length above the *)
(* body bytes it sends and then stays open and silent is, once accepted,   *)
(* never finished: in every state from then on it is the open connection   *)
(* of its listener, whose loop is alive and not accepting, every           *)
(* connection made to that listener meanwhile (clients', a /exit request,  *)
(* cancel's) waits unaccepted and unanswered, and the handler is not       *)
(* called for any of them.                                                 *)
(***************************************************************************)
Stalls(r) ==
    /\ r.kind = "http" /\ r.path = S_submit /\ r.open
    /\ ~r.read_err
    /\ \E n \in 1..9 : r.headers = CL(<<48 + n>>) /\ Len(r.body) < n

C13_StalledBlocks ==
    \A c \in DOMAIN conns :
        (Stalls(ReqOf(c)) /\ conns[c].st \notin {"queued", "reset", "aborted"}) =>
            LET l == conns[c].lid
            IN  /\ conns[c].st = "open"
                /\ conns[c].response = NoResponse
                /\ Running(l)
                /\ lst[l].cur = c
                /\ lst[l].pc \in {"read", "body"}
                /\ \A d \in ConnsOf(l) : d > c =>
                       /\ conns[d].st = "queued"
                       /\ conns[d].response = NoResponse
                       /\ HandlerCalls(d) = {}

C13_Witness ==
    \E c, d \in DOMAIN conns, k \in cancels :
        /\ conns[c].rid = Rid(ReqSubmitStall)
        /\ lst[conns[c].lid].pc = "body" /\ lst[conns[c].lid].cur = c
        /\ k.result = "Ok" /\ k.cid = d /\ d > c
        /\ conns[d].lid = conns[c].lid

(***************************************************************************)
(* C14: a failed accept attempt leaves the loop alive and at its next      *)
(* accept: the step changes nothing but the failed attempt, the handler is *)
(* never invoked for it and nothing is written to it, and a listener whose *)
(* connections only failed to be accepted is still running.                *)
(***************************************************************************)
C14_AbortedState ==
    /\ \A c \in DOMAIN conns :
           conns[c].st = "aborted" =>
               /\ HandlerCalls(c) = {}
               /\ conns[c].response = NoResponse
               /\ conns[c].ret = "pending"
    /\ \A l \in DOMAIN lst :
           (\A c \in ConnsOf(l) : conns[c].st \in {"aborted", "queued"}) =>
               Running(l) /\ lst[l].pc = "accept"

C14_AbortedStep ==
    \A c \in DOMAIN conns :
        (conns[c].st # "aborted" /\ conns'[c].st = "aborted") =>
            LET l == conns[c].lid
            IN  /\ lst[l].pc = "accept"
                /\ Running(l)'
                /\ lst'[l].pc = "accept"
                /\ lst'[l].backlog = Tail(lst[l].backlog)
                /\ handlerLog' = handlerLog
                /\ \A d \in DOMAIN conns : d # c => conns'[d] = conns[d]

C14_AcceptErrorContinues == []C14_AbortedState /\ [][C14_AbortedStep]_vars

C14_Witness ==
    /\ Len(conns) = 2
    /\ conns[1].st = "aborted"
    /\ conns[2].rid = Rid(ReqSubmitSplit)
    /\ Handled(2) /\ Answered(2) /\ conns[2].val = S_abc
    /\ Cardinality(HandlerCalls(2)) = 1
    /\ Running(conns[2].lid)

(***************************************************************************)
(* C15 as stated: a handled connection whose bytes the parser rejects, on  *)
(* a transport that did not fail, was classified with an empty path and no *)
(* headers, got the fixed 200 response, yielded no content and no handler  *)
(* call, and its listener's loop went on.                                  *)
(***************************************************************************)
NoTransportFault(c) == ~ReqOf(c).read_err /\ ~ReqOf(c).write_err
LoopWentOn(c) ==
    \/ Running(conns[c].lid)
    \/ \E d \in ConnsOf(conns[c].lid) : d > c /\ conns[d].st \in {"open", "closed"}

C15_MalformedDegrades ==
    \A c \in DOMAIN conns :
        (Handled(c) /\ NoTransportFault(c) /\ ~WellFormed[conns[c].rid]) =>
            /\ ParsedPath[conns[c].rid] = <<>>
            /\ ParsedHeaders[conns[c].rid] = <<>>
            /\ Answered(c)
            /\ conns[c].ret = "None"
            /\ HandlerCalls(c) = {}
            /\ LoopWentOn(c)

(***************************************************************************)
(* C15 amended: bytes the parser rejects before it has read a complete     *)
(* request target are classified with an empty path and no headers, get    *)
(* the fixed 200 response, yield no content and no handler call, and the   *)
(* loop goes on; bytes it rejects later are classified by the path and the *)
(* headers read before the rejection: with the path /exit the connection   *)
(* gets the shutdown marker and the loop stops, with the path /submit and  *)
(* a Content-Length read before the rejection the body is captured.        *)
(***************************************************************************)
C15_RejectedBytesClassified ==
    \A c \in DOMAIN conns :
        (Handled(c) /\ NoTransportFault(c) /\ ~WellFormed[conns[c].rid]) =>
            LET rid == conns[c].rid
                path == ParsedPath[rid]
                content_length == content_length_of(ParsedHeaders[rid], 0)
            IN  /\ path = <<>> =>
                       /\ ParsedHeaders[rid] = <<>>
                       /\ Answered(c)
                       /\ conns[c].ret = "None"
                       /\ HandlerCalls(c) = {}
                       /\ LoopWentOn(c)
                /\ path = S_exit =>
                       /\ ReturnedMarker(c)
                       /\ conns[c].response = NoResponse
                       /\ lst[conns[c].lid].status = "stopped"
                /\ (path = S_submit /\ content_length > 0
                        /\ Len(ReqOf(c).body) = content_length
                        /\ ReqOf(c).body = from_utf8_lossy(ReqOf(c).body)) =>
                       /\ YieldsContent(c)
                       /\ conns[c].val = ReqOf(c).body
                       /\ Answered(c)

C15_Witness ==
    /\ Len(conns) = 2
    /\ conns[1].rid = Rid(ReqGarbage) /\ Handled(1) /\ Answered(1)
    /\ conns[2].rid = Rid(ReqSubmitBadHeader) /\ YieldsContent(2)
    /\ Cardinality(HandlerCalls(2)) = 1

(***************************************************************************)
(* C16: for two listeners started with different config.response and fed  *)
(* the same requests in the same order, every position of the two          *)
(* sequences at which both connections are done shows the same response    *)
(* bytes, the same result of handle_connection and the same handler calls. *)
(***************************************************************************)
Nth(l, i) == CHOOSE c \in ConnsOf(l) : Cardinality({d \in ConnsOf(l) : d < c}) = i - 1
Done(c) == conns[c].st = "closed" /\ ~InHand(c)
CallContents(c) == {handlerLog[i].content : i \in HandlerCalls(c)}

Declared(r) == content_length_of(r.headers, 0)

C17_ContentLengthExact ==
    /\ \A i \in DOMAIN handlerLog :
           Len(handlerLog[i].content) = Declared(ReqOf(handlerLog[i].cid))
    /\ \A c \in DOMAIN conns :
           (/\ Handled(c) /\ NoTransportFault(c)
            /\ ReqOf(c).kind = "http" /\ ReqOf(c).path = S_submit
            /\ Declared(ReqOf(c)) > 0
            /\ ReqOf(c).k > Declared(ReqOf(c))) =>
               /\ conns[c].ret # "panic"
               /\ Len(conns[c].val) <= Declared(ReqOf(c))

(***************************************************************************)
(* C18: for a connection that yields non-empty content the fixed response  *)
(* has been written and flushed before the handler is invoked with the     *)
(* content, the next connection of its listener is accepted only after     *)
(* that invocation, and the handler invocations for a listener's           *)
(* connections occur in the order in which the connections were accepted.  *)
(***************************************************************************)
C18_RespondHandleAccept ==
    /\ \A l \in DOMAIN lst :
           lst[l].pc = "handler" =>
               /\ Answered(lst[l].cur) /\ Handled(lst[l].cur)
               /\ lst[l].ret = Some(conns[lst[l].cur].val)
    /\ \A i \in DOMAIN handlerLog :
           /\ Answered(handlerLog[i].cid) /\ Handled(handlerLog[i].cid)
           /\ handlerLog[i].content = conns[handlerLog[i].cid].val
    /\ \A c \in DOMAIN conns :
           YieldsContent(c) =>
               \A d \in ConnsOf(conns[c].lid) :
                   (d > c /\ conns[d].st \in {"open", "closed"}) => HandlerCalls(c) # {}
    /\ \A i, j \in DOMAIN handlerLog :
           (i < j /\ conns[handlerLog[i].cid].lid = conns[handlerLog[j].cid].lid)
               => handlerLog[i].cid < handlerLog[j].cid

C18_Witness ==
    /\ Len(conns) = 2
    /\ Len(handlerLog) = 1 /\ handlerLog[1].cid = 1
    /\ conns[1].rid = Rid(ReqSubmitSplit)
    /\ conns[2].rid = Rid(ReqSubmitUtf8)
    /\ lst[1].pc = "handler" /\ lst[1].cur = 2

(***************************************************************************)
(* C19: nothing is ever written to a connection whose parsed path is       *)
(* /exit: it is closed with the shutdown marker returned and no response   *)
(* byte; a handled connection has the fixed 200 response if and only if    *)
(* its parsed path is not /exit and no fault ended its handling before the *)
(* response was written; and no connection has a response before it was    *)
(* handled.                                                                *)
(***************************************************************************)
C19_NoResponseOnExit ==
    \A c \in DOMAIN conns :
        /\ ParsedPath[conns[c].rid] = S_exit => conns[c].response = NoResponse
        /\ conns[c].response # NoResponse => Handled(c) /\ Answered(c)
        /\ Handled(c) =>
               /\ Answered(c) <=>
                      (ParsedPath[conns[c].rid] # S_exit /\ conns[c].ret # "panic")
               /\ ParsedPath[conns[c].rid] = S_exit => ReturnedMarker(c)

C19_Witness ==
    /\ Len(conns) = 2
    /\ conns[1].rid = Rid(ReqSubmitNoLength) /\ Handled(1) /\ Answered(1)
    /\ conns[2].rid = Rid(ReqExit) /\ Handled(2)
    /\ conns[2].response = NoResponse
    /\ lst[1].status = "stopped"

====
